---------------------------- MODULE Spec2Model ----------------------------
(***************************************************************************)
(* A model of lambda_function.py (email-skeeter): an SNS/SES email event   *)
(* is decoded, checked against an allow-list, stripped of boilerplate,     *)
(* reflowed into posts of bounded length and published as a reply thread.  *)
(*                                                                         *)
(* Text is a sequence of one-character strings.  A character outside ASCII *)
(* is written by its code point ("U+00E9"); a byte of encoded text is      *)
(* written as the ASCII character it encodes, or as "0xNN".                *)
(***************************************************************************)
EXTENDS Integers, Sequences, FiniteSets, TLC

VARIABLES
    pc,             \* position of the invocation
    text,           \* the text given to create_thread / split_to_posts / extract_url_byte_positions
    max_len,        \* create_thread's and split_to_posts' max_len
    posts,          \* split_to_posts' result
    idx,            \* create_thread: index of the next post of the for loop
    root_ref,       \* create_thread: root_ref
    parent_ref,     \* create_thread: parent_ref
    calls,          \* the calls the atproto Client has received, in order
    url_positions,  \* extract_url_byte_positions' result
    event,          \* lambda_handler's event
    mail,           \* get_simplified_email's result
    environ,        \* the USERNAME, PASSWORD and APPROVED_SENDERS os.getenv returned
    config,         \* load_environment's result
    st_text,        \* extract_alert_data's result
    raised,         \* the exception that ended the invocation, or "None"
    logged          \* load_environment's logged list of missing names

vars == <<pc, text, max_len, posts, idx, root_ref, parent_ref, calls,
          url_positions, event, mail, environ, config, st_text, raised, logged>>

threadVars == <<idx, root_ref, parent_ref, calls>>

handlerVars == <<event, mail, environ, config, st_text, logged>>

-----------------------------------------------------------------------------
(* Bounds of the model *)

\* longest text given to split_to_posts
MaxTextLen == 6

\* largest max_len given to split_to_posts
MaxMaxLen == 4

\* longest text given to create_thread
MaxThreadTextLen == 5

\* largest max_len given to create_thread
MaxThreadMaxLen == 3

\* most tokens of a text given to extract_url_byte_positions
MaxUrlTokens == 4

\* most tokens of an email body
MaxBodyTokens == 3

-----------------------------------------------------------------------------
(* Python's str operations, on sequences of characters *)

\* str.isspace for the characters of the model's alphabets
Whitespace == {" ", "\n", "\r", "\t"}

RECURSIVE Seqs(_, _)
\* all sequences over S of length at most n
Seqs(S, n) ==
    IF n = 0 THEN {<<>>}
    ELSE LET shorter == Seqs(S, n - 1)
         IN  shorter \cup {Append(s, c) : s \in {t \in shorter : Len(t) = n - 1}, c \in S}

RECURSIVE Flatten(_)
\* the concatenation of a sequence of strings
Flatten(ss) ==
    IF ss = <<>> THEN <<>> ELSE Head(ss) \o Flatten(Tail(ss))

RECURSIVE SplitLinesFrom(_, _, _, _)
SplitLinesFrom(s, i, cur, acc) ==
    IF i > Len(s) THEN (IF cur = <<>> THEN acc ELSE Append(acc, cur))
    ELSE IF s[i] = "\n" THEN SplitLinesFrom(s, i + 1, <<>>, Append(acc, cur))
    ELSE IF s[i] = "\r"
         THEN IF i + 1 <= Len(s) /\ s[i + 1] = "\n"
              THEN SplitLinesFrom(s, i + 2, <<>>, Append(acc, cur))
              ELSE SplitLinesFrom(s, i + 1, <<>>, Append(acc, cur))
    ELSE SplitLinesFrom(s, i + 1, Append(cur, s[i]), acc)

\* str.splitlines(): the lines of s, without their line breaks; a final line
\* break opens no further line
SplitLines(s) == SplitLinesFrom(s, 1, <<>>, <<>>)

RECURSIVE SplitWordsFrom(_, _, _, _)
SplitWordsFrom(s, i, cur, acc) ==
    IF i > Len(s) THEN (IF cur = <<>> THEN acc ELSE Append(acc, cur))
    ELSE IF s[i] \in Whitespace
         THEN SplitWordsFrom(s, i + 1, <<>>, IF cur = <<>> THEN acc ELSE Append(acc, cur))
    ELSE SplitWordsFrom(s, i + 1, Append(cur, s[i]), acc)

\* str.split(): the maximal runs of non-whitespace characters of s
SplitWords(s) == SplitWordsFrom(s, 1, <<>>, <<>>)

RECURSIVE SplitOnFrom(_, _, _, _, _)
SplitOnFrom(s, sep, i, cur, acc) ==
    IF i > Len(s) THEN Append(acc, cur)
    ELSE IF s[i] = sep THEN SplitOnFrom(s, sep, i + 1, <<>>, Append(acc, cur))
    ELSE SplitOnFrom(s, sep, i + 1, Append(cur, s[i]), acc)

\* str.split(sep) for a separator of one character: never an empty list
SplitOn(s, sep) == SplitOnFrom(s, sep, 1, <<>>, <<>>)

RECURSIVE LStrip(_)
LStrip(s) ==
    IF s # <<>> /\ Head(s) \in Whitespace THEN LStrip(Tail(s)) ELSE s

RECURSIVE RStrip(_)
RStrip(s) ==
    IF s # <<>> /\ s[Len(s)] \in Whitespace THEN RStrip(SubSeq(s, 1, Len(s) - 1)) ELSE s

\* str.strip()
Strip(s) == RStrip(LStrip(s))

\* str.startswith(prefix)
StartsWith(s, prefix) ==
    Len(prefix) <= Len(s) /\ SubSeq(s, 1, Len(prefix)) = prefix

\* sub in s
IsSubstring(sub, s) ==
    \E i \in 0..(Len(s) - Len(sub)) : SubSeq(s, i + 1, i + Len(sub)) = sub

RECURSIVE JoinWith(_, _)
\* sep.join(ss)
JoinWith(ss, sep) ==
    IF ss = <<>> THEN <<>>
    ELSE IF Len(ss) = 1 THEN ss[1]
    ELSE ss[1] \o sep \o JoinWith(Tail(ss), sep)

-----------------------------------------------------------------------------
(* split_to_posts *)

\* (mutant) the line is joined to the post with a space
JoinLineWithSpace(curline, line) == curline \o <<" ">> \o line

\* curline += "\n"; curline += line
JoinLine(curline, line) == curline \o <<"\n">> \o line

\* curline += " "; curline += word
JoinWord(curline, word) == curline \o <<" ">> \o word

RECURSIVE WordLoop(_, _, _, _, _)
\* for word in words[1:]: the posts and the curline it leaves
WordLoop(words, i, ps, curline, maxLen) ==
    IF i > Len(words) THEN [posts |-> ps, curline |-> curline]
    ELSE IF Len(curline) + Len(words[i]) + 1 <= maxLen
         THEN WordLoop(words, i + 1, ps, JoinWord(curline, words[i]), maxLen)
         ELSE WordLoop(words, i + 1, Append(ps, curline), words[i], maxLen)

RECURSIVE LineLoop(_, _, _, _, _, _)
\* for line in lines[1:], then posts.append(curline); IndexError when a line
\* longer than max_len meets a text without a word
LineLoop(t, lines, i, ps, curline, maxLen) ==
    IF i > Len(lines) THEN [raised |-> "None", posts |-> Append(ps, curline)]
    ELSE IF Len(curline) + Len(lines[i]) + 1 <= maxLen
         THEN LineLoop(t, lines, i + 1, ps, JoinLine(curline, lines[i]), maxLen)
    ELSE IF Len(lines[i]) <= maxLen
         THEN LineLoop(t, lines, i + 1, Append(ps, curline), lines[i], maxLen)
    ELSE LET words == SplitWords(t)
         IN  IF words = <<>> THEN [raised |-> "IndexError", posts |-> <<>>]
             ELSE LET w == WordLoop(words, 2, Append(ps, curline), words[1], maxLen)
                  IN  LineLoop(t, lines, i + 1, w.posts, w.curline, maxLen)

\* split_to_posts(text, max_len): IndexError (lines[0]) for a text without a line
split_to_posts(t, maxLen) ==
    LET lines == SplitLines(t)
    IN  IF lines = <<>> THEN [raised |-> "IndexError", posts |-> <<>>]
        ELSE LineLoop(t, lines, 2, <<>>, lines[1], maxLen)

-----------------------------------------------------------------------------
(* extract_url_byte_positions *)

\* the UTF-8 bytes of one character
EncodeChar(c) ==
    CASE c = "U+00E9" -> <<"0xC3", "0xA9">>
      [] c = "U+20AC" -> <<"0xE2", "0x82", "0xAC">>
      [] OTHER -> <<c>>

RECURSIVE Encode(_)
\* text.encode('UTF-8')
Encode(s) ==
    IF s = <<>> THEN <<>> ELSE EncodeChar(Head(s)) \o Encode(Tail(s))

RECURSIVE Decode(_)
\* bytes.decode('UTF-8'); UnicodeDecodeError for bytes that encode no text
Decode(b) ==
    IF b = <<>> THEN <<>>
    ELSE IF b[1] = "0xC3"
         THEN IF Len(b) >= 2 /\ b[2] = "0xA9"
              THEN <<"U+00E9">> \o Decode(SubSeq(b, 3, Len(b)))
              ELSE <<"UnicodeDecodeError">>
    ELSE IF b[1] = "0xE2"
         THEN IF Len(b) >= 3 /\ b[2] = "0x82" /\ b[3] = "0xAC"
              THEN <<"U+20AC">> \o Decode(SubSeq(b, 4, Len(b)))
              ELSE <<"UnicodeDecodeError">>
    ELSE IF b[1] \in {"0xA9", "0x82", "0xAC"} THEN <<"UnicodeDecodeError">>
    ELSE <<b[1]>> \o Decode(Tail(b))

\* the bytes the class [^ \n\r\t] excludes
UrlStop == {" ", "\n", "\r", "\t"}

\* whether the bytes lit stand at offset i of b
LiteralAt(b, i, lit) ==
    i + Len(lit) <= Len(b) /\ SubSeq(b, i + 1, i + Len(lit)) = lit

RECURSIVE RunEnd(_, _)
\* [^ \n\r\t]* from offset i, greedy: the offset where the run ends
RunEnd(b, i) ==
    IF i < Len(b) /\ b[i + 1] \notin UrlStop THEN RunEnd(b, i + 1) ELSE i

\* the pattern rb'https?://[^ \n\r\t]*' matched at offset i: the offset where
\* the match ends, or -1
MatchAt(b, i) ==
    IF ~LiteralAt(b, i, <<"h", "t", "t", "p">>) THEN -1
    ELSE IF LiteralAt(b, i + 4, <<"s", ":", "/", "/">>) THEN RunEnd(b, i + 8)
    ELSE IF LiteralAt(b, i + 4, <<":", "/", "/">>) THEN RunEnd(b, i + 7)
    ELSE -1

RECURSIVE FindIter(_, _, _)
\* re.finditer(pattern, encoded_text): the matches from offset i on, left to
\* right, each search starting where the last match ended
FindIter(b, i, acc) ==
    IF i >= Len(b) THEN acc
    ELSE LET e == MatchAt(b, i)
         IN  IF e >= 0
             THEN FindIter(b, e, Append(acc, [byte_start |-> i, byte_end |-> e]))
             ELSE FindIter(b, i + 1, acc)

\* (mutant) the offsets are those of the text's characters, not of its bytes
extract_url_char_positions(t) ==
    LET ms == FindIter(t, 0, <<>>)
    IN  [k \in 1..Len(ms) |->
            [url |-> SubSeq(t, ms[k].byte_start + 1, ms[k].byte_end),
             byte_start |-> ms[k].byte_start,
             byte_end |-> ms[k].byte_end]]

\* extract_url_byte_positions(text): (url, match.start(), match.end()) of
\* every match in the encoded text
extract_url_byte_positions(t) ==
    LET encoded_text == Encode(t)
        ms == FindIter(encoded_text, 0, <<>>)
    IN  [k \in 1..Len(ms) |->
            [url |-> Decode(SubSeq(encoded_text, ms[k].byte_start + 1, ms[k].byte_end)),
             byte_start |-> ms[k].byte_start,
             byte_end |-> ms[k].byte_end]]

-----------------------------------------------------------------------------
(* create_thread and send_post_with_hyperlinks *)

\* Python's None, where a reference or a text is expected
None == "None"

\* the references the network may return for a created post
Refs == {"at://post/1", "at://post/2"}

\* the facets of send_post_with_hyperlinks: one link per url position
Facets(t) ==
    LET url_pos == extract_url_byte_positions(t)
    IN  [k \in 1..Len(url_pos) |->
            [uri |-> url_pos[k].url,
             byte_start |-> url_pos[k].byte_start,
             byte_end |-> url_pos[k].byte_end]]

\* if parent_ref and root_ref: ReplyRef(parent, root) else None
ReplyRef(root, parent) ==
    IF parent # None /\ root # None
    THEN [threaded |-> TRUE, root |-> root, parent |-> parent]
    ELSE [threaded |-> FALSE, root |-> None, parent |-> None]

\* (mutant) the root follows the last post
NextRootFollows(root, ref) == ref

\* if not root_ref: root_ref = parent_ref
NextRoot(root, ref) == IF root = None THEN ref ELSE root

\* client.login(username, password)
LoginCall(username, password) ==
    [op |-> "login", username |-> username, password |-> password,
     text |-> <<>>, facets |-> <<>>, reply_to |-> ReplyRef(None, None), ref |-> None]

\* client.send_post(text, facets=facets, reply_to=reply_ref), and the
\* reference made of its answer
SendPostCall(t, root, parent, ref) ==
    [op |-> "send_post", username |-> <<>>, password |-> <<>>,
     text |-> t, facets |-> Facets(t), reply_to |-> ReplyRef(root, parent), ref |-> ref]

\* client = Client(); client.login(username, password)
Login ==
    /\ pc = "login"
    /\ \/ /\ calls' = Append(calls, LoginCall(config.user, config.password))
          /\ pc' = "split"
          /\ UNCHANGED raised
       \/ /\ calls' = Append(calls, LoginCall(config.user, config.password))
          /\ pc' = "raised"
          /\ raised' = "LoginError"
    /\ UNCHANGED <<text, max_len, posts, idx, root_ref, parent_ref, url_positions>>
    /\ UNCHANGED handlerVars

\* posts = split_to_posts(text, max_len=max_len); parent_ref = None; root_ref = None
Split ==
    /\ pc = "split"
    /\ LET r == split_to_posts(text, max_len)
       IN  /\ posts' = r.posts
           /\ raised' = r.raised
           /\ pc' = IF r.raised = "None" THEN "loop" ELSE "raised"
    /\ idx' = 1
    /\ root_ref' = None
    /\ parent_ref' = None
    /\ UNCHANGED <<text, max_len, calls, url_positions>>
    /\ UNCHANGED handlerVars

\* one turn of 'for post in posts': the post is sent, and answered
SendPost ==
    /\ pc = "loop"
    /\ idx <= Len(posts)
    /\ \E ref \in Refs :
          /\ calls' = Append(calls, SendPostCall(posts[idx], root_ref, parent_ref, ref))
          /\ parent_ref' = ref
          /\ root_ref' = NextRoot(root_ref, ref)
    /\ idx' = idx + 1
    /\ UNCHANGED <<pc, text, max_len, posts, url_positions, raised>>
    /\ UNCHANGED handlerVars

\* one turn of 'for post in posts': the post is sent, and client.send_post raises
SendPostFails ==
    /\ pc = "loop"
    /\ idx <= Len(posts)
    /\ calls' = Append(calls, SendPostCall(posts[idx], root_ref, parent_ref, None))
    /\ pc' = "raised"
    /\ raised' = "SendPostError"
    /\ UNCHANGED <<text, max_len, posts, idx, root_ref, parent_ref, url_positions>>
    /\ UNCHANGED handlerVars

\* the for loop is over: create_thread returns
ThreadReturns ==
    /\ pc = "loop"
    /\ idx > Len(posts)
    /\ pc' = "done"
    /\ UNCHANGED <<text, max_len, posts, idx, root_ref, parent_ref, calls,
                   url_positions, raised>>
    /\ UNCHANGED handlerVars

-----------------------------------------------------------------------------
(* The state of an invocation that has not started *)

NoMail == [present |-> FALSE, sender |-> <<>>, subject |-> <<>>, body |-> <<>>]

NoConfig == [user |-> <<>>, password |-> <<>>, approved_senders |-> <<>>]

Unset == [set |-> FALSE, value |-> <<>>]

NoEnviron == [USERNAME |-> Unset, PASSWORD |-> Unset, APPROVED_SENDERS |-> Unset]

NoEvent == [shape |-> "none", sender |-> <<>>, subject |-> <<>>, body |-> <<>>]

\* None, where extract_alert_data may return a text
NoText == [present |-> FALSE, text |-> <<>>]

\* the credentials create_thread is called with, when called on its own
ThreadConfig == [user |-> <<"u">>, password |-> <<"p">>, approved_senders |-> <<>>]

IdleThread ==
    /\ posts = <<>>
    /\ idx = 1
    /\ root_ref = None
    /\ parent_ref = None
    /\ calls = <<>>
    /\ url_positions = <<>>
    /\ raised = "None"

IdleHandler ==
    /\ event = NoEvent
    /\ mail = NoMail
    /\ environ = NoEnviron
    /\ st_text = NoText
    /\ logged = <<>>

-----------------------------------------------------------------------------
(* deep_get, over the values json.loads makes *)

\* a dict: its keys, and the value at each
Dict(keys, d) == [t |-> "dict", keys |-> keys, d |-> d]

EmptyDict == [t |-> "dict", keys |-> {}, d |-> <<>>]

List(l) == [t |-> "list", l |-> l]

Number == [t |-> "int"]

\* a str: its characters, and the document its characters spell (what
\* json.loads or email.message_from_string reads from it)
Str(s, doc) == [t |-> "str", s |-> s, doc |-> doc]

NoneValue == [t |-> "none"]

\* the keys of deep_get: an int or a str
IntKey(i) == [int |-> TRUE, i |-> i, s |-> ""]

StrKey(k) == [int |-> FALSE, i |-> 0, s |-> k]

\* a step of deep_get that ends it: return None, or an exception
Found(v) == [raised |-> "None", value |-> v]

Raises(exc) == [raised |-> exc, value |-> NoneValue]

\* _d[key] for an int key (the events of the model index no str)
IndexInt(d, i) ==
    CASE d.t = "list" -> IF i < Len(d.l) THEN Found(d.l[i + 1]) ELSE Raises("IndexError")
      [] d.t = "dict" -> Raises("KeyError")
      [] d.t \in {"int", "none"} -> Raises("TypeError")

\* key in _d for a str key: True, False, or a TypeError (the lists of the
\* model hold no str, and its events look up no key in a str)
StrKeyIn(d, k) ==
    CASE d.t = "dict" -> IF k \in d.keys THEN "True" ELSE "False"
      [] d.t = "list" -> "False"
      [] d.t \in {"int", "none"} -> "TypeError"

\* _d[key] for a str key that is in _d
IndexStr(d, k) ==
    IF d.t = "dict" THEN Found(d.d[k]) ELSE Raises("TypeError")

RECURSIVE deep_get(_, _)
\* deep_get(d, *keys)
deep_get(d, keys) ==
    IF keys = <<>> THEN Found(d)
    ELSE LET key == Head(keys)
         IN  IF key.int
             THEN LET r == IndexInt(d, key.i)
                  IN  IF r.raised # "None" THEN r ELSE deep_get(r.value, Tail(keys))
             ELSE LET in == StrKeyIn(d, key.s)
                  IN  IF in = "TypeError" THEN Raises("TypeError")
                      ELSE IF in = "False" THEN Found(NoneValue)
                      ELSE LET r == IndexStr(d, key.s)
                           IN  IF r.raised # "None" THEN r
                               ELSE deep_get(r.value, Tail(keys))

\* Python's truth of a value: not d
Falsy(d) ==
    CASE d.t = "none" -> TRUE
      [] d.t = "str"  -> d.s = <<>>
      [] d.t = "list" -> d.l = <<>>
      [] d.t = "dict" -> d.keys = {}
      [] OTHER -> FALSE

-----------------------------------------------------------------------------
(* get_simplified_email *)

\* the raw email: the text of a message with this Subject and this plain body
MimeText(subject, body) ==
    Str(<<"Subject: ">> \o subject \o <<"\n", "\n">> \o body,
        [mime |-> TRUE, subject |-> subject, plain |-> body])

\* the SES notification of each shape of event
SesNotification(ev) ==
    CASE ev.shape = "no_mail" ->
            Dict({"content"}, [content |-> MimeText(ev.subject, ev.body)])
      [] ev.shape = "no_source" ->
            Dict({"mail", "content"},
                 [mail |-> EmptyDict, content |-> MimeText(ev.subject, ev.body)])
      [] ev.shape = "no_content" ->
            Dict({"mail"},
                 [mail |-> Dict({"source"}, [source |-> Str(ev.sender, NoneValue)])])
      [] OTHER ->
            Dict({"mail", "content"},
                 [mail |-> Dict({"source"}, [source |-> Str(ev.sender, NoneValue)]),
                  content |-> MimeText(ev.subject, ev.body)])

\* the SNS record of an event whose Message is the string m
SnsRecords(m) ==
    Dict({"Records"},
         [Records |-> List(<<Dict({"Sns"}, [Sns |-> Dict({"Message"}, [Message |-> m])])>>)])

\* the event of each shape, as json.loads hands it to lambda_handler
Envelope(ev) ==
    CASE ev.shape = "no_records"      -> EmptyDict
      [] ev.shape = "empty_records"   -> Dict({"Records"}, [Records |-> List(<<>>)])
      [] ev.shape = "records_not_list" -> Dict({"Records"}, [Records |-> Number])
      [] ev.shape = "record_not_dict" -> Dict({"Records"}, [Records |-> List(<<Number>>)])
      [] ev.shape = "no_sns"          -> Dict({"Records"}, [Records |-> List(<<EmptyDict>>)])
      [] ev.shape = "no_message"      ->
            Dict({"Records"}, [Records |-> List(<<Dict({"Sns"}, [Sns |-> EmptyDict])>>)])
      [] ev.shape = "empty_message"   -> SnsRecords(Str(<<>>, NoneValue))
      [] OTHER -> SnsRecords(Str(<<"{", "}">>, SesNotification(ev)))

\* a step of get_simplified_email that ends it
ReturnsMail(m) == [raised |-> "None", mail |-> m]

RaisesInDecoder(exc) == [raised |-> exc, mail |-> NoMail]

\* get_simplified_email(event): a SimpleEmail, None, or an exception
get_simplified_email(ev) ==
    LET sns_message == deep_get(ev, <<StrKey("Records"), IntKey(0), StrKey("Sns"), StrKey("Message")>>)
    IN  IF sns_message.raised # "None" THEN RaisesInDecoder(sns_message.raised)
        ELSE IF Falsy(sns_message.value) THEN ReturnsMail(NoMail)
        ELSE LET ses_notification == sns_message.value.doc
                 sender == deep_get(ses_notification, <<StrKey("mail"), StrKey("source")>>)
                 email_content == deep_get(ses_notification, <<StrKey("content")>>)
             IN  IF sender.raised # "None" THEN RaisesInDecoder(sender.raised)
                 ELSE IF email_content.raised # "None" THEN RaisesInDecoder(email_content.raised)
                 ELSE IF Falsy(email_content.value) \/ Falsy(sender.value)
                      THEN ReturnsMail(NoMail)
                 ELSE ReturnsMail([present |-> TRUE,
                                   sender |-> sender.value.s,
                                   subject |-> email_content.value.doc.subject,
                                   body |-> Strip(email_content.value.doc.plain)])

-----------------------------------------------------------------------------
(* extract_alert_data *)

\* "See something suspicious?"
SeeSomething ==
    <<"S", "e", "e", " ", "s", "o", "m", "e", "t", "h", "i", "n", "g", " ",
      "s", "u", "s", "p", "i", "c", "i", "o", "u", "s", "?">>

\* "Plan your trip or find alternate service options"
PlanYourTrip ==
    <<"P", "l", "a", "n", " ", "y", "o", "u", "r", " ", "t", "r", "i", "p",
      " ", "o", "r", " ", "f", "i", "n", "d", " ", "a", "l", "t", "e", "r",
      "n", "a", "t", "e", " ", "s", "e", "r", "v", "i", "c", "e", " ", "o",
      "p", "t", "i", "o", "n", "s">>

\* st_signoffs at offset i of s: (:?See something suspicious\?), where the
\* colon is optional, or (?:Plan your trip or find alternate service options.),
\* where the last dot is any character
SignoffAt(s, i) ==
    \/ LiteralAt(s, i, SeeSomething)
    \/ LiteralAt(s, i, <<":">> \o SeeSomething)
    \/ LiteralAt(s, i, PlanYourTrip) /\ i + Len(PlanYourTrip) < Len(s)

\* \s+ and then a signoff, at offset k of s
TrailerAt(s, k) ==
    \E j \in 1..(Len(s) - k) :
        /\ \A i \in (k + 1)..(k + j) : s[i] \in Whitespace
        /\ SignoffAt(s, k + j)

\* st_email_pattern.match(s): the body group is the shortest prefix of s that
\* the trailer follows
MatchBody(s) ==
    LET ks == {k \in 0..Len(s) : TrailerAt(s, k)}
    IN  IF ks = {} THEN [matched |-> FALSE, body |-> <<>>]
        ELSE LET k == CHOOSE m \in ks : \A n \in ks : m <= n
             IN  [matched |-> TRUE, body |-> SubSeq(s, 1, k)]

\* email_address_pattern.findall(s) is not empty: \S+@\S+.com, where the dot
\* is any character but a newline
HasAddress(s) ==
    \E a \in 2..Len(s) : \E q \in (a + 1)..(Len(s) - 4) :
        /\ s[a] = "@"
        /\ s[a - 1] \notin Whitespace
        /\ \A i \in (a + 1)..q : s[i] \notin Whitespace
        /\ s[q + 1] # "\n"
        /\ SubSeq(s, q + 2, q + 4) = <<"c", "o", "m">>

\* subject_prefixes
subject_prefixes ==
    << <<"R", "e", "m", "i", "n", "d", "e", "r", ":", " ">>,
       <<"A", "l", "l", " ", "C", "l", "e", "a", "r", ":", " ">>,
       <<"R", "e", "s", "o", "l", "v", "e", "d", ":", " ">>,
       <<"{", "{", "p", "_", "s", "u", "b", "j", "e", "c", "t", "}", "}">> >>

RECURSIVE SimplifySubject(_, _)
\* for prefix in subject_prefixes: a prefix the subject starts with is cut off
SimplifySubject(subject, i) ==
    IF i > Len(subject_prefixes) THEN subject
    ELSE IF StartsWith(subject, subject_prefixes[i])
         THEN SimplifySubject(
                  Strip(SubSeq(subject, Len(subject_prefixes[i]) + 1, Len(subject))), i + 1)
         ELSE SimplifySubject(subject, i + 1)

\* extract_alert_data(mail): the text to publish, or None
extract_alert_data(m) ==
    LET result == MatchBody(m.body)
        body == Strip(result.body)
    IN  IF ~result.matched THEN NoText
        ELSE IF HasAddress(body) THEN NoText
        ELSE IF IsSubstring(SimplifySubject(m.subject, 1), body)
             THEN [present |-> TRUE, text |-> body]
             ELSE [present |-> TRUE, text |-> m.subject \o <<"\n", "\n">> \o body]

-----------------------------------------------------------------------------
(* load_environment *)

\* not os.getenv(name): the value is unset or empty
Missing(v) == ~v.set \/ v.value = <<>>

\* the names load_environment logs as missing
MissingNames(user, password, approved_senders) ==
    (IF Missing(user) THEN <<"USERNAME">> ELSE <<>>)
    \o (IF Missing(password) THEN <<"PASSWORD">> ELSE <<>>)
    \o (IF approved_senders = <<>> THEN <<"APPROVED_SENDERS">> ELSE <<>>)

\* os.getenv(name): a value, or None
Getenv(values) ==
    {Unset} \cup {[set |-> TRUE, value |-> v] : v \in values}

\* the environments of the model
Environs ==
    [USERNAME : Getenv({<<>>, <<"u">>}),
     PASSWORD : Getenv({<<>>, <<"p">>}),
     APPROVED_SENDERS : Getenv({<<>>, <<"a">>, <<"a", ",", "c">>})]

\* load_environment(): the three values, exit(-1) after logging the missing
\* names, or the AttributeError of None.split
load_environment(env) ==
    IF ~env.APPROVED_SENDERS.set
    THEN [raised |-> "AttributeError: 'NoneType' object has no attribute 'split'",
          exited |-> FALSE, missing |-> <<>>, config |-> NoConfig]
    ELSE LET approved_senders == SplitOn(env.APPROVED_SENDERS.value, ",")
         IN  IF Missing(env.USERNAME) \/ Missing(env.PASSWORD) \/ approved_senders = <<>>
             THEN [raised |-> "None", exited |-> TRUE,
                   missing |-> MissingNames(env.USERNAME, env.PASSWORD, approved_senders),
                   config |-> NoConfig]
             ELSE [raised |-> "None", exited |-> FALSE, missing |-> <<>>,
                   config |-> [user |-> env.USERNAME.value,
                               password |-> env.PASSWORD.value,
                               approved_senders |-> approved_senders]]

-----------------------------------------------------------------------------
(* lambda_handler *)

\* create_thread's default max_len
DefaultMaxLen == 300

\* (mutant) every sender is approved
SenderApprovedAlways(sender, approved_senders) == TRUE

\* mail.sender in approved_senders
SenderApproved(sender, approved_senders) ==
    \E i \in 1..Len(approved_senders) : approved_senders[i] = sender

\* if st_text
Truthy(t) == t.present /\ t.text # <<>>

\* mail = get_simplified_email(event)
GetSimplifiedEmail ==
    /\ pc = "get_simplified_email"
    /\ LET r == get_simplified_email(Envelope(event))
       IN  /\ mail' = r.mail
           /\ raised' = r.raised
           /\ pc' = IF r.raised = "None" THEN "log_email" ELSE "raised"
    /\ UNCHANGED <<text, max_len, posts, url_positions, event, environ, config,
                   st_text, logged>>
    /\ UNCHANGED threadVars

\* log.info(f"Email from {mail.sender}: ..."): AttributeError when mail is None
LogEmail ==
    /\ pc = "log_email"
    /\ IF mail.present
       THEN pc' = "load_environment" /\ UNCHANGED raised
       ELSE /\ pc' = "raised"
            /\ raised' = "AttributeError: 'NoneType' object has no attribute 'sender'"
    /\ UNCHANGED <<text, max_len, posts, url_positions>>
    /\ UNCHANGED threadVars
    /\ UNCHANGED handlerVars

\* user, password, approved_senders = load_environment()
LoadEnvironment ==
    /\ pc = "load_environment"
    /\ environ' \in Environs
    /\ LET r == load_environment(environ')
       IN  /\ config' = r.config
           /\ logged' = r.missing
           /\ raised' = r.raised
           /\ pc' = IF r.raised # "None" THEN "raised"
                    ELSE IF r.exited THEN "exited"
                    ELSE "check_sender"
    /\ UNCHANGED <<text, max_len, posts, url_positions, event, mail, st_text>>
    /\ UNCHANGED threadVars

\* if mail.sender in approved_senders: ... else: log.warning(...)
CheckSender ==
    /\ pc = "check_sender"
    /\ pc' = IF SenderApproved(mail.sender, config.approved_senders)
             THEN "extract_alert_data" ELSE "done"
    /\ UNCHANGED <<text, max_len, posts, url_positions, raised>>
    /\ UNCHANGED threadVars
    /\ UNCHANGED handlerVars

\* st_text = extract_alert_data(mail); if st_text: create_thread(user, password, st_text)
ExtractAlertData ==
    /\ pc = "extract_alert_data"
    /\ st_text' = extract_alert_data(mail)
    /\ IF Truthy(st_text')
       THEN /\ text' = st_text'.text
            /\ max_len' = DefaultMaxLen
            /\ pc' = "login"
       ELSE /\ pc' = "done"
            /\ UNCHANGED <<text, max_len>>
    /\ UNCHANGED <<posts, url_positions, raised, event, mail, environ, config, logged>>
    /\ UNCHANGED threadVars

-----------------------------------------------------------------------------
(* split_to_posts on its own *)

SplitAlphabet == {"a", "b", " ", "\n"}

InitSplit ==
    /\ pc = "split_to_posts"
    /\ text \in Seqs(SplitAlphabet, MaxTextLen)
    /\ max_len \in 1..MaxMaxLen
    /\ config = NoConfig
    /\ IdleThread
    /\ IdleHandler

ApplySplit ==
    /\ pc = "split_to_posts"
    /\ LET r == split_to_posts(text, max_len)
       IN  /\ posts' = r.posts
           /\ raised' = r.raised
           /\ pc' = IF r.raised = "None" THEN "returned" ELSE "raised"
    /\ UNCHANGED <<text, max_len, url_positions>>
    /\ UNCHANGED threadVars
    /\ UNCHANGED handlerVars

SpecSplit == InitSplit /\ [][ApplySplit]_vars

-----------------------------------------------------------------------------
(* Claims about split_to_posts, under SpecSplit *)

\* the words of the posts, read in order
RECURSIVE WordsOfPosts(_)
WordsOfPosts(ps) ==
    IF ps = <<>> THEN <<>> ELSE SplitWords(Head(ps)) \o WordsOfPosts(Tail(ps))

\* a post that is one word: it holds a character and no whitespace
IsOneWord(post) ==
    post # <<>> /\ \A i \in 1..Len(post) : post[i] \notin Whitespace

\* every line of t has at most n characters
LinesFit(t, n) ==
    \A i \in 1..Len(SplitLines(t)) : Len(SplitLines(t)[i]) <= n

\* C2: every post split_to_posts returns has at most max_len characters,
\* unless it is a single word longer than max_len
C2_PostsWithinMaxLen ==
    pc = "returned" =>
        \A k \in 1..Len(posts) : Len(posts[k]) <= max_len \/ IsOneWord(posts[k])

\* C6: when the text is not empty and every line of it fits max_len, the posts
\* joined with a newline are the lines of the text joined with a newline
C6_RoundTrip ==
    (pc = "returned" /\ text # <<>> /\ LinesFit(text, max_len)) =>
        JoinWith(posts, <<"\n">>) = JoinWith(SplitLines(text), <<"\n">>)

\* C6 happens: lines that all fit, some merged into one post, some not
C6_Witness ==
    /\ pc = "returned"
    /\ LinesFit(text, max_len)
    /\ Len(posts) >= 2
    /\ Len(SplitLines(text)) > Len(posts)

\* C7: the words of the posts, read in order, are the words of the text
C7_WordsPreserved ==
    pc = "returned" => WordsOfPosts(posts) = SplitWords(text)

\* C8: no post split_to_posts returns is the empty string
C8_NoEmptyPost ==
    pc = "returned" => \A k \in 1..Len(posts) : posts[k] # <<>>

-----------------------------------------------------------------------------
(* extract_url_byte_positions on its own *)

HttpPrefix == <<"h", "t", "t", "p", ":", "/", "/">>

HttpsPrefix == <<"h", "t", "t", "p", "s", ":", "/", "/">>

\* the pieces the texts given to extract_url_byte_positions are made of
UrlTokens ==
    {HttpPrefix, HttpsPrefix, <<"h", "t", "t", "p", ":", "/">>,
     <<"x">>, <<" ">>, <<"\n">>, <<"U+00E9">>}

InitUrl ==
    /\ pc = "extract_url_byte_positions"
    /\ \E ts \in Seqs(UrlTokens, MaxUrlTokens) : text = Flatten(ts)
    /\ max_len = 1
    /\ config = NoConfig
    /\ IdleThread
    /\ IdleHandler

ApplyUrl ==
    /\ pc = "extract_url_byte_positions"
    /\ url_positions' = extract_url_byte_positions(text)
    /\ pc' = "returned"
    /\ UNCHANGED <<text, max_len, posts, raised>>
    /\ UNCHANGED threadVars
    /\ UNCHANGED handlerVars

SpecUrl == InitUrl /\ [][ApplyUrl]_vars

\* C9: the spans are in left-to-right order and do not overlap; each lies in
\* the encoded text, is not empty, holds exactly the bytes of its url, which
\* begins with http:// or https:// and holds no space, tab, CR or LF; and each
\* ends at the end of the encoded text or before one of those four bytes
C9_UrlSpans ==
    pc = "returned" =>
        LET encoded_text == Encode(text)
        IN  \A k \in 1..Len(url_positions) :
                LET p == url_positions[k]
                IN  /\ 0 <= p.byte_start
                    /\ p.byte_start < p.byte_end
                    /\ p.byte_end <= Len(encoded_text)
                    /\ k < Len(url_positions) =>
                           p.byte_end <= url_positions[k + 1].byte_start
                    /\ SubSeq(encoded_text, p.byte_start + 1, p.byte_end) = Encode(p.url)
                    /\ StartsWith(p.url, HttpPrefix) \/ StartsWith(p.url, HttpsPrefix)
                    /\ \A i \in 1..Len(p.url) : p.url[i] \notin {" ", "\t", "\r", "\n"}
                    /\ p.byte_end < Len(encoded_text) =>
                           encoded_text[p.byte_end + 1] \in {" ", "\t", "\r", "\n"}

\* C9 happens: two urls, the first after a character of two bytes
C9_Witness ==
    /\ pc = "returned"
    /\ Len(url_positions) = 2
    /\ text[1] = "U+00E9"
    /\ url_positions[1].byte_start = 2
    /\ Len(url_positions[1].url) > Len(HttpPrefix)

-----------------------------------------------------------------------------
(* create_thread on its own *)

ThreadAlphabet == {"a", " ", "\n"}

InitThread ==
    /\ pc = "login"
    /\ text \in Seqs(ThreadAlphabet, MaxThreadTextLen)
    /\ max_len \in 1..MaxThreadMaxLen
    /\ config = ThreadConfig
    /\ IdleThread
    /\ IdleHandler

NextThread == Login \/ Split \/ SendPost \/ SendPostFails \/ ThreadReturns

SpecThread == InitThread /\ [][NextThread]_vars

\* the send_post calls the client has received
IsSendPost(c) == c.op = "send_post"

PostCalls == SelectSeq(calls, IsSendPost)

\* C1: while every send_post succeeds, the k-th send_post carries the k-th post;
\* the first carries no reply context, every later one carries as root the
\* reference the first returned and as parent the reference the one before it
\* returned; root_ref, once set, stays the first reference; and when
\* create_thread returns there have been as many send_post calls as posts
C1_ThreadProtocol ==
    pc \in {"loop", "done"} =>
        /\ Len(PostCalls) = idx - 1
        /\ Len(PostCalls) <= Len(posts)
        /\ pc = "done" => Len(PostCalls) = Len(posts)
        /\ root_ref = IF PostCalls = <<>> THEN None ELSE PostCalls[1].ref
        /\ \A k \in 1..Len(PostCalls) :
              /\ PostCalls[k].text = posts[k]
              /\ k = 1 => ~PostCalls[k].reply_to.threaded
              /\ k >= 2 =>
                    /\ PostCalls[k].reply_to.threaded
                    /\ PostCalls[k].reply_to.root = PostCalls[1].ref
                    /\ PostCalls[k].reply_to.parent = PostCalls[k - 1].ref

\* C1 happens: a thread of three posts or more, whose second post got another
\* reference than the first
C1_Witness ==
    /\ pc = "done"
    /\ Len(posts) >= 3
    /\ Len(PostCalls) = Len(posts)
    /\ PostCalls[1].ref # PostCalls[2].ref

-----------------------------------------------------------------------------
(* lambda_handler, from the event to the thread *)

\* the shapes of event that lack a segment get_simplified_email needs
AbsentShapes ==
    {"no_records", "empty_records", "records_not_list", "record_not_dict", "no_sns",
     "no_message", "empty_message", "no_mail", "no_source", "no_content"}

Senders == {<<"a">>, <<"b">>}

Subjects ==
    {<<>>, <<"G", "o">>, <<"N", "o">>,
     <<"R", "e", "m", "i", "n", "d", "e", "r", ":", " ", "G", "o">>,
     <<"a", "@", "b", ".", "c", "o", "m">>}

\* the pieces the email bodies are made of
BodyTokens ==
    {<<"G", "o">>, <<" ">>, <<"\n">>, <<"a", "@", "b", ".", "c", "o", "m">>,
     SeeSomething, PlanYourTrip \o <<".">>}

Bodies == {Flatten(ts) : ts \in Seqs(BodyTokens, MaxBodyTokens)}

InitHandler ==
    /\ pc = "get_simplified_email"
    /\ \/ \E sh \in AbsentShapes :
             event = [shape |-> sh, sender |-> <<"a">>, subject |-> <<"G", "o">>,
                      body |-> <<"G", "o", " ">> \o SeeSomething]
       \/ \E sender \in Senders, subject \in Subjects, body \in Bodies :
             event = [shape |-> "full", sender |-> sender, subject |-> subject,
                      body |-> body]
    /\ text = <<>>
    /\ max_len = DefaultMaxLen
    /\ mail = NoMail
    /\ environ = NoEnviron
    /\ config = NoConfig
    /\ st_text = NoText
    /\ logged = <<>>
    /\ IdleThread

NextHandler ==
    \/ GetSimplifiedEmail
    \/ LogEmail
    \/ LoadEnvironment
    \/ CheckSender
    \/ ExtractAlertData
    \/ Login
    \/ Split
    \/ SendPost
    \/ SendPostFails
    \/ ThreadReturns

SpecHandler == InitHandler /\ [][NextHandler]_vars

-----------------------------------------------------------------------------
(* Claims about lambda_handler, under SpecHandler *)

\* the sender of the email is one of the comma-separated APPROVED_SENDERS
SenderOnList ==
    /\ mail.present
    /\ environ.APPROVED_SENDERS.set
    /\ \E i \in 1..Len(SplitOn(environ.APPROVED_SENDERS.value, ",")) :
          SplitOn(environ.APPROVED_SENDERS.value, ",")[i] = mail.sender

\* the body of the email matches the alert pattern
BodyMatches == mail.present /\ MatchBody(mail.body).matched

\* the captured body holds a match of the address pattern
CapturedHasAddress ==
    BodyMatches /\ HasAddress(Strip(MatchBody(mail.body).body))

\* C3: the client is called (login, send_post) only if the sender is on the
\* allow-list and extract_alert_data returned text; with a sender off the
\* list, a body that does not match the alert pattern, or an address in the
\* captured body, the client gets no call (stated by its contrapositive: a
\* call implies none of the three)
C3_CallsOnlyWhenApproved ==
    calls # <<>> =>
        /\ SenderOnList
        /\ st_text.present
        /\ BodyMatches
        /\ ~CapturedHasAddress

\* C3 happens: an approved sender's alert has been posted, under an allow-list
\* of two
C3_Witness ==
    /\ pc = "done"
    /\ PostCalls # <<>>
    /\ SenderOnList
    /\ Len(config.approved_senders) = 2

\* C4: an event that lacks a required segment ends the invocation as a no-op:
\* no exception, no call to the client
C4_AbsentSegmentIsNoOp ==
    event.shape \in AbsentShapes =>
        /\ pc # "raised"
        /\ raised = "None"
        /\ calls = <<>>

\* load_environment has acted
EnvironmentLoaded ==
    mail.present /\ pc \notin {"get_simplified_email", "log_email", "load_environment"}

\* the names of the configuration values that are unset or empty
UnsetOrEmptyNames ==
    (IF Missing(environ.USERNAME) THEN <<"USERNAME">> ELSE <<>>)
    \o (IF Missing(environ.PASSWORD) THEN <<"PASSWORD">> ELSE <<>>)
    \o (IF Missing(environ.APPROVED_SENDERS) THEN <<"APPROVED_SENDERS">> ELSE <<>>)

\* C5: with USERNAME, PASSWORD or APPROVED_SENDERS unset or empty,
\* load_environment logs the missing names and exits, and the client gets no
\* call; it returns the three values only when all three are set and not empty
C5_MissingConfigExits ==
    EnvironmentLoaded =>
        IF UnsetOrEmptyNames # <<>>
        THEN pc = "exited" /\ logged = UnsetOrEmptyNames /\ calls = <<>>
        ELSE pc # "exited" /\ config.user = environ.USERNAME.value
                           /\ config.password = environ.PASSWORD.value

\* C10: the text extract_alert_data returns holds no match of the address
\* pattern, and neither does any post sent
C10_NoAddressPublished ==
    /\ st_text.present => ~HasAddress(st_text.text)
    /\ \A k \in 1..Len(PostCalls) : ~HasAddress(PostCalls[k].text)

=============================================================================
